---- MODULE Spec2Model ----
(***************************************************************************)
(* Model of the index manager of the secondary-indexing service           *)
(* (secondary/manager/manager.go): DDL handling through the Coordinator,   *)
(* event listeners, the leader-only services and the stability-timestamp   *)
(* keeper.  Time is counted in abstract clock ticks.                       *)
(***************************************************************************)
EXTENDS Integers, Sequences, FiniteSets, TLC

(***************************************************************************)
(* Bounds of the model.                                                    *)
(***************************************************************************)
MaxSeq == 1
MaxEpoch == 2
MaxReports == 3
MaxTime == 1
MaxInterval == 1
MaxStarts == 2
MaxTerms == 1
MaxChans == 3
EvtChSize == 1

\* The persist interval startMasterService sets, in clock ticks.
TIMESTAMP_PERSIST_INTERVAL == 1

\* The capacity of a stream's broadcast channel.
TIMESTAMP_NOTIFY_CH_SIZE == 1

Streams == {"s1", "s2"}
Buckets == {"b"}
Vbs == {0, 1}
Seqnos == 0..MaxSeq
Epochs == 1..MaxEpoch
Intervals == 0..MaxInterval
Keepers == 1..MaxStarts

\* A raw report: one vbucket timestamp tagged with its stream and bucket.
Reports == [stream : Streams, bucket : Buckets, vb : Vbs, seq : Seqnos, epoch : Epochs]

\* The reports the streams of the keeper model produce: one vbucket, one epoch.
KeeperReports == {r \in Reports : r.vb = 0 /\ r.epoch = 1}

\* Index definitions, and the callers and listeners of the index manager.
Names == {"idx1", "idx2"}
Defns == [bucket : Buckets, name : Names]
Callers == {"c1", "c2"}
Listeners == {"l1", "l2"}
Notifiers == {"n1", "n2"}
Procs == {"p1", "p2"}
Ops == {"startMasterService", "stopMasterService", "Close", "CleanupStabilityTimestamp"}
TopoBuckets == {"b1", "b2"}
Getters == {"g1", "g2"}
Chans == 1..MaxChans
EventTypes == {"EVENT_CREATE_INDEX", "EVENT_DROP_INDEX"}
Roles == {"Unsynchronized", "Follower", "Leader"}

VARIABLES
    mList,     \* merge harness: the timestamp list being merged into
    mSeen,     \* merge harness: the set of reports merged so far
    mCount,    \* merge harness: number of addTimestamp calls made
    role,      \* Coordinator: the role of this node
    incomings, \* Coordinator: queue of the requests waiting to be processed
    cpc,       \* per DDL caller: "idle", "blocked" (in NewRequest), "unblocked"
    creq,      \* per DDL caller: the request of its current call
    cret,      \* per DDL caller: what NewRequest returned
    cwhy,      \* per DDL caller: why NewRequest returned what it did
    ddlRet,    \* the error the DDL call that returned last has returned
    cstale,    \* per DDL caller: the opposite change of its key was committed after its own commit
    okCreate,  \* per key: a create has returned success and no drop was committed since its commit
    okDelete,  \* per key: a delete has returned success and no create was committed since its commit
    repoDefn,  \* MetadataRepo: index definitions by key
    repoTs,    \* MetadataRepo: the stability-timestamp record
    notifiers, \* eventManager: the registered (listener, event type) pairs
    evtCh,     \* eventManager: each listener's delivery channel per event type
    wantCreate, \* the listeners that asked for index-created events and have not stopped
    mStreamMgr, \* IndexManager.streamMgr: 0 is nil, else the start that made it
    mTimer,    \* IndexManager.timer: 0 is nil, else the start that made it
    mStopCh,   \* IndexManager.timekeeperStopCh: 0 is nil, else the start that made it
    mInterval, \* IndexManager.timestampPersistInterval
    nStarts,   \* number of startMasterService calls so far
    stoppedTimers, \* the timers on which stopAll was called
    closedCh,  \* the stop channels that were closed
    now,       \* the clock
    nReports,  \* number of reports the timers have delivered
    seenStreams, \* the streams for which some keeper has observed a report
    kpc,       \* per keeper goroutine: its position in runTimestampKeeper
    ktimer,    \* per keeper: the timer whose output channel it reads (inboundch)
    ksel,      \* per keeper: the stop channel its select waits on
    kts,       \* per keeper: timestamps, the in-memory list
    kflag,     \* per keeper: persistTimestamp
    klast,     \* per keeper: lastPersistTime
    kcur,      \* per keeper: the report being processed
    kbad,      \* per keeper: the report being processed cannot be marshalled
    kout,      \* per keeper: what became of the persist for the report being processed
    kfresh,    \* per keeper: it has processed no report yet
    kstat,     \* per keeper: the outcome of its last persist attempt
    khadOk,    \* per keeper: some persist of it has succeeded
    kokTime,   \* per keeper: the time of its last successful persist
    kdom,      \* per keeper: per vbucket, the highest entry loaded or merged so far
    tsChMade,  \* IndexManager.timestampCh: the streams that have a broadcast channel
    tsCh,      \* IndexManager.timestampCh: the content of each stream's channel
    tsLast,    \* per stream: the timestamp its subscriber received last
    npc,       \* per concurrent caller of notifyNewTimestamp: "idle" or "send"
    nwrap,     \* per concurrent caller of notifyNewTimestamp: the wrapper it was handed
    mutex,     \* IndexManager.mutex: the goroutine that holds it, or "none"
    isClosed,  \* IndexManager.isClosed
    ppc,       \* per goroutine calling start, stop, Close, cleanup: its position
    pop,       \* per goroutine calling start, stop, Close, cleanup: the operation it runs
    topGlobal, \* MetadataRepo: the GlobalTopology record (present, TopologyKeys)
    topRecs,   \* MetadataRepo: the buckets that have a persisted IndexTopology record
    tpc,       \* per goroutine calling CleanupTopology: its position
    tkeys,     \* per goroutine calling CleanupTopology: the keys of its loop still to come
    chMap,     \* IndexManager.timestampCh as a map: per stream its channel, 0 is no entry
    nChans,    \* number of channels made by GetStabilityTimestampChannel so far
    chBuf,     \* the content of each channel made
    gpc,       \* per goroutine calling GetStabilityTimestampChannel: its position
    gstr,      \* per goroutine calling GetStabilityTimestampChannel: its streamId
    gnew,      \* per goroutine calling GetStabilityTimestampChannel: the channel it made
    gheld,     \* per goroutine: per stream, the channel its last call returned, 0 is none
    chFatal,   \* the runtime has ended the program on concurrent map writes
    chCloses,  \* per stop channel: how many times close() was called on it
    smCloses,  \* per StreamManager: how many times its Close() was called
    smMade,    \* the StreamManagers that NewStreamManager has made
    nTeardowns, \* how many times Close has closed repo, coordinator, eventMgr, reqHandler
    startRet   \* what the last call of startMasterService returned

merge_vars == <<mList, mSeen, mCount>>
coord_vars == <<role, incomings>>
ddl_vars == <<cpc, creq, cret, cwhy, ddlRet, cstale, okCreate, okDelete>>
repo_vars == <<repoDefn, repoTs>>
evt_vars == <<notifiers, evtCh, wantCreate>>
mgr_vars == <<mStreamMgr, mTimer, mStopCh, nStarts, stoppedTimers, closedCh>>
env_vars == <<now, nReports, seenStreams>>
klocal_vars == <<ktimer, ksel, kts, kflag, klast, kcur, kbad, kout>>
khist_vars == <<kfresh, kstat, khadOk, kokTime, kdom>>
bcast_vars == <<tsChMade, tsCh, tsLast>>
notif_vars == <<npc, nwrap>>
lock_vars == <<mutex, isClosed, ppc, pop>>
topo_vars == <<topGlobal, topRecs, tpc, tkeys>>
chan_vars == <<chMap, nChans, chBuf, gpc, gstr, gnew, gheld, chFatal>>
seq_vars == <<chCloses, smCloses, smMade, nTeardowns, startRet>>
more_vars == <<lock_vars, topo_vars, chan_vars, seq_vars>>
ext_vars == <<bcast_vars, notif_vars, more_vars>>
vars == <<merge_vars, ext_vars, coord_vars, ddl_vars, repo_vars, evt_vars, mgr_vars, mInterval,
          env_vars, kpc, klocal_vars, khist_vars>>

(***************************************************************************)
(* The stability-timestamp list and its merge rule.                        *)
(***************************************************************************)
SameKey(a, b) == a.stream = b.stream /\ a.bucket = b.bucket /\ a.vb = b.vb

\* The merge order: higher sequenceNumber, ties broken by higher epochId.
Higher(a, b) == a.seq > b.seq \/ (a.seq = b.seq /\ a.epoch > b.epoch)

\* A new, empty list of timestamps.
createTimestampListSerializable == << >>

IndexOf(list, r) == CHOOSE i \in 1..Len(list) : SameKey(list[i], r)

HasKey(list, r) == \E i \in 1..Len(list) : SameKey(list[i], r)

\* A faulty merge that lets the higher epochId win whatever the sequence numbers.
addTimestamp_EpochFirst(list, r) ==
    IF HasKey(list, r)
    THEN LET i == IndexOf(list, r) IN
         IF r.epoch > list[i].epoch \/ (r.epoch = list[i].epoch /\ r.seq > list[i].seq)
         THEN [list EXCEPT ![i] = r] ELSE list
    ELSE Append(list, r)

\* A faulty merge that keeps whatever arrived last.
addTimestamp_LastWins(list, r) ==
    IF HasKey(list, r)
    THEN [list EXCEPT ![IndexOf(list, r)] = r]
    ELSE Append(list, r)

\* timestamps.addTimestamp(timestamp): merge one report into the list, keeping
\* one entry per (stream, bucket, vbucket).
addTimestamp(list, r) ==
    IF HasKey(list, r)
    THEN LET i == IndexOf(list, r) IN
         IF Higher(r, list[i]) THEN [list EXCEPT ![i] = r] ELSE list
    ELSE Append(list, r)

\* savedTimestamps.findTimestamp(streamId, bucket, vb) -> (seqno, epoch, found)
findTimestamp(list, s, b, v) ==
    LET hits == {i \in 1..Len(list) :
                    list[i].stream = s /\ list[i].bucket = b /\ list[i].vb = v} IN
    IF hits = {} THEN [seq |-> 0, epoch |-> 0, ok |-> FALSE]
    ELSE LET i == CHOOSE j \in hits : \A k \in hits : j <= k IN
         [seq |-> list[i].seq, epoch |-> list[i].epoch, ok |-> TRUE]

(***************************************************************************)
(* Index definitions, requests and the metadata repository.               *)
(***************************************************************************)
NoDefn == <<"NoDefn">>
NoReq == [op |-> "none", key |-> << >>, content |-> << >>]
NoCall == [key |-> <<>>, req |-> NoReq, noLeader |-> FALSE]
NoReport == [stream |-> "none"]

\* indexName(bucket, name): the key of an index definition
indexName(bucket, name) == <<bucket, name>>

IndexKeys == {indexName(d.bucket, d.name) : d \in Defns}

\* marshallIndexDefn / unmarshallIndexDefn: the serialized form of a definition
marshallIndexDefn(defn) == <<"IndexDefn", defn.bucket, defn.name>>

unmarshallIndexDefn(content) == [bucket |-> content[2], name |-> content[3]]

\* marshallTimestampSerializable: the wrapper of a report, its stream id and
\* the serialized timestamp
marshallTimestampSerializable(r) ==
    <<"timestampSerializable", r.stream, <<r.bucket, r.vb, r.seq, r.epoch>>>>

\* A create request filed under the key with bucket and name swapped.
CreateRequest_SwappedKey(defn) ==
    [op |-> "OPCODE_ADD_IDX_DEFN",
     key |-> indexName(defn.name, defn.bucket),
     content |-> marshallIndexDefn(defn)]

\* The request HandleCreateIndexDDL hands to Coordinator.NewRequest.
CreateRequest(defn) ==
    [op |-> "OPCODE_ADD_IDX_DEFN",
     key |-> indexName(defn.bucket, defn.name),
     content |-> marshallIndexDefn(defn)]

\* The request HandleDeleteIndexDDL hands to Coordinator.NewRequest.
DeleteRequest(bucket, name) ==
    [op |-> "OPCODE_DEL_IDX_DEFN",
     key |-> indexName(bucket, name),
     content |-> <<>>]

\* The request the timestamp keeper hands to Coordinator.NewRequest.
NotifyTimestampRequest(r) ==
    [op |-> "OPCODE_NOTIFY_TIMESTAMP",
     key |-> <<"Stability Timestamp">>,
     content |-> marshallTimestampSerializable(r)]

\* A create handler that reports success whatever NewRequest returned.
HandleCreateIndexDDLResult_AlwaysNil(ok) == "nil"

\* What HandleCreateIndexDDL returns once NewRequest has returned ok.
HandleCreateIndexDDLResult(ok) ==
    IF ~ok THEN "ERROR_MGR_DDL_CREATE_IDX" ELSE "nil"

\* What HandleDeleteIndexDDL returns once NewRequest has returned ok.
HandleDeleteIndexDDLResult(ok) ==
    IF ~ok THEN "ERROR_MGR_DDL_DROP_IDX" ELSE "nil"

\* repo.GetIndexDefnByName: the stored definition, or a not-found condition
repo_GetIndexDefnByName(defns, bucket, name) ==
    LET key == indexName(bucket, name) IN
    IF key \in DOMAIN defns /\ defns[key] # NoDefn
    THEN [defn |-> unmarshallIndexDefn(defns[key]), err |-> "nil"]
    ELSE [defn |-> NoDefn, err |-> "not found"]

\* IndexManager.GetIndexDefnByName(bucket, name)
GetIndexDefnByName(bucket, name) == repo_GetIndexDefnByName(repoDefn, bucket, name)

\* A lookup that trusts findTimestamp's seqno without looking at its ok result.
GetStabilityTimestampForVb_IgnoresOk(saved, readErr, s, b, v) ==
    IF ~readErr
    THEN [seqno |-> findTimestamp(saved, s, b, v).seq, ok |-> TRUE]
    ELSE [seqno |-> 0, ok |-> FALSE]

\* IndexManager.GetStabilityTimestampForVb(streamId, bucket, vb) on the saved
\* record; readErr says that repo.GetStabilityTimestamps failed.
GetStabilityTimestampForVb(saved, readErr, s, b, v) ==
    IF ~readErr
    THEN LET f == findTimestamp(saved, s, b, v) IN
         IF f.ok THEN [seqno |-> f.seq, ok |-> TRUE] ELSE [seqno |-> 0, ok |-> FALSE]
    ELSE [seqno |-> 0, ok |-> FALSE]

(***************************************************************************)
(* The event manager.                                                      *)
(***************************************************************************)
\* eventManager.notify: deliver obj to every listener registered for evtType
\* whose channel has room; a full channel drops the notification.
eventMgr_notify(ch, regs, evtType, obj) ==
    [l \in Listeners |-> [k \in EventTypes |->
        IF k = evtType /\ <<l, k>> \in regs /\ Len(ch[l][k]) < EvtChSize
        THEN Append(ch[l][k], obj)
        ELSE ch[l][k]]]

\* IndexManager.notify(evtType, obj)
notify(evtType, obj) == eventMgr_notify(evtCh, notifiers, evtType, obj)

\* What the listener operations leave alone.
NotListeners == <<merge_vars, ext_vars, coord_vars, ddl_vars, repo_vars, mgr_vars, mInterval,
                  env_vars, kpc, klocal_vars, khist_vars>>

\* A listener for index creation registered for the drop event instead.
StartListenIndexCreate_AsDrop(id) ==
    /\ notifiers' = notifiers \cup {<<id, "EVENT_DROP_INDEX">>}
    /\ wantCreate' = wantCreate \cup {id}
    /\ UNCHANGED <<evtCh, NotListeners>>

\* IndexManager.StartListenIndexCreate(id)
StartListenIndexCreate(id) ==
    /\ notifiers' = notifiers \cup {<<id, "EVENT_CREATE_INDEX">>}
    /\ wantCreate' = wantCreate \cup {id}
    /\ UNCHANGED <<evtCh, NotListeners>>

\* IndexManager.StopListenIndexCreate(id)
StopListenIndexCreate(id) ==
    /\ notifiers' = notifiers \ {<<id, "EVENT_CREATE_INDEX">>}
    /\ wantCreate' = wantCreate \ {id}
    /\ UNCHANGED <<evtCh, NotListeners>>

\* IndexManager.StartListenIndexDelete(id)
StartListenIndexDelete(id) ==
    /\ notifiers' = notifiers \cup {<<id, "EVENT_DROP_INDEX">>}
    /\ UNCHANGED <<evtCh, wantCreate, NotListeners>>

\* IndexManager.StopListenIndexDelete(id)
StopListenIndexDelete(id) ==
    /\ notifiers' = notifiers \ {<<id, "EVENT_DROP_INDEX">>}
    /\ UNCHANGED <<evtCh, wantCreate, NotListeners>>

\* A listener takes the next notification off one of its channels.
ListenerReceive(id, k) ==
    /\ evtCh[id][k] # << >>
    /\ evtCh' = [evtCh EXCEPT ![id][k] = Tail(@)]
    /\ UNCHANGED <<notifiers, wantCreate, NotListeners>>

(***************************************************************************)
(* The DDL handlers.                                                       *)
(***************************************************************************)
Synced == {"Leader", "Follower"}

DDLCaller(c) == [kind |-> "ddl", id |-> c, k |-> 0]
KeeperCaller(k) == [kind |-> "keeper", id |-> "", k |-> k]

\* A Coordinator that turns a request away at once when it has no leader.
NewRequestQueues_RejectUnsynchronized(r) == r # "Unsynchronized"

\* Coordinator.NewRequest puts every request in its channel for later
\* processing, whatever the role of the node.
NewRequestQueues(r) == TRUE

\* Coordinator.NewRequest called by a DDL handler, up to the point where the
\* caller blocks.
NewRequest(c, asked, req) ==
    /\ creq' = [creq EXCEPT ![c] =
           [key |-> asked, req |-> req, noLeader |-> role = "Unsynchronized"]]
    /\ cstale' = [cstale EXCEPT ![c] = FALSE]
    /\ IF NewRequestQueues(role)
       THEN /\ incomings' = Append(incomings, [caller |-> DDLCaller(c), req |-> req])
            /\ cpc' = [cpc EXCEPT ![c] = "blocked"]
            /\ cwhy' = [cwhy EXCEPT ![c] = "pending"]
            /\ UNCHANGED cret
       ELSE /\ cpc' = [cpc EXCEPT ![c] = "unblocked"]
            /\ cret' = [cret EXCEPT ![c] = FALSE]
            /\ cwhy' = [cwhy EXCEPT ![c] = "unsynchronized"]
            /\ UNCHANGED incomings

\* What the DDL handlers leave alone.
NotDDL == <<merge_vars, ext_vars, role, repo_vars, evt_vars, mgr_vars, mInterval,
            env_vars, kpc, klocal_vars, khist_vars>>

\* IndexManager.HandleCreateIndexDDL(defn), up to the call of NewRequest.
HandleCreateIndexDDL(c, defn, marshalOk) ==
    /\ cpc[c] = "idle"
    /\ IF ~marshalOk
       THEN /\ ddlRet' = "marshal error"
            /\ UNCHANGED <<incomings, cpc, creq, cret, cwhy, cstale>>
       ELSE /\ NewRequest(c, indexName(defn.bucket, defn.name), CreateRequest(defn))
            /\ UNCHANGED ddlRet
    /\ UNCHANGED <<okCreate, okDelete, NotDDL>>

\* IndexManager.HandleDeleteIndexDDL(bucket, name), up to the call of NewRequest.
HandleDeleteIndexDDL(c, bucket, name) ==
    /\ cpc[c] = "idle"
    /\ NewRequest(c, indexName(bucket, name), DeleteRequest(bucket, name))
    /\ UNCHANGED <<ddlRet, okCreate, okDelete, NotDDL>>

\* The DDL handler returns to its caller after NewRequest has returned.
HandleDDLReturn(c) ==
    /\ cpc[c] = "unblocked"
    /\ LET req == creq[c].req
           create == req.op = "OPCODE_ADD_IDX_DEFN"
           err == IF create THEN HandleCreateIndexDDLResult(cret[c])
                  ELSE HandleDeleteIndexDDLResult(cret[c]) IN
       /\ ddlRet' = err
       /\ okCreate' = IF create /\ err = "nil" /\ ~cstale[c]
                      THEN [okCreate EXCEPT ![creq[c].key] = TRUE] ELSE okCreate
       /\ okDelete' = IF ~create /\ err = "nil" /\ ~cstale[c]
                      THEN [okDelete EXCEPT ![creq[c].key] = TRUE] ELSE okDelete
    /\ cpc' = [cpc EXCEPT ![c] = "idle"]
    /\ creq' = [creq EXCEPT ![c] = NoCall]
    /\ cret' = [cret EXCEPT ![c] = FALSE]
    /\ cwhy' = [cwhy EXCEPT ![c] = "none"]
    /\ cstale' = [cstale EXCEPT ![c] = FALSE]
    /\ UNCHANGED <<incomings, NotDDL>>

(***************************************************************************)
(* The leader-only services.                                               *)
(***************************************************************************)
\* What startMasterService returns: the error of NewStreamManager, or nil.
startMasterServiceResult(smOk) == IF smOk THEN "nil" ELSE "error"

\* A start that undoes the timer and the stop channel when NewStreamManager
\* fails.
startMasterService_FailureUndoes(smOk) ==
    LET id == nStarts + 1 IN
    /\ nStarts' = id
    /\ mInterval' = TIMESTAMP_PERSIST_INTERVAL
    /\ mTimer' = IF smOk THEN id ELSE 0
    /\ mStopCh' = IF smOk THEN id ELSE 0
    /\ mStreamMgr' = IF smOk THEN id ELSE 0
    /\ UNCHANGED <<stoppedTimers, closedCh>>

\* IndexManager.startMasterService(); smOk says that NewStreamManager succeeded.
\* The keeper goroutine it spawns is kpc[nStarts + 1].
startMasterService(smOk) ==
    LET id == nStarts + 1 IN
    /\ nStarts' = id
    /\ mInterval' = TIMESTAMP_PERSIST_INTERVAL
    /\ mTimer' = id
    /\ mStopCh' = id
    /\ mStreamMgr' = IF smOk THEN id ELSE 0
    /\ UNCHANGED <<stoppedTimers, closedCh>>

\* IndexManager.stopMasterServiceNoLock()
stopMasterServiceNoLock ==
    /\ mStreamMgr' = 0
    /\ mTimer' = 0
    /\ stoppedTimers' = IF mTimer # 0 THEN stoppedTimers \cup {mTimer} ELSE stoppedTimers
    /\ closedCh' = IF mTimer # 0 /\ mStopCh # 0 THEN closedCh \cup {mStopCh} ELSE closedCh
    /\ mStopCh' = IF mTimer # 0 THEN 0 ELSE mStopCh
    /\ UNCHANGED <<nStarts, mInterval>>

(***************************************************************************)
(* The Coordinator.                                                        *)
(***************************************************************************)
\* The callers whose requests are among the handles hs.
DDLCallersIn(hs) == {h.caller.id : h \in {x \in hs : x.caller.kind = "ddl"}}

KeepersIn(hs) == {h.caller.k : h \in {x \in hs : x.caller.kind = "keeper"}}

\* NewRequest returns ok to the callers of the handles hs.
Unblock(hs, ok, why) ==
    /\ cpc' = [c \in Callers |-> IF c \in DDLCallersIn(hs) THEN "unblocked" ELSE cpc[c]]
    /\ cret' = [c \in Callers |-> IF c \in DDLCallersIn(hs) THEN ok ELSE cret[c]]
    /\ cwhy' = [c \in Callers |-> IF c \in DDLCallersIn(hs) THEN why ELSE cwhy[c]]
    /\ kpc' = [k \in Keepers |-> IF k \in KeepersIn(hs) THEN "unblocked" ELSE kpc[k]]

\* The change a committed request makes to the index definitions of the repository.
ApplyToRepo(defns, req) ==
    IF req.op = "OPCODE_ADD_IDX_DEFN"
    THEN [k \in DOMAIN defns \cup {req.key} |-> IF k = req.key THEN req.content ELSE defns[k]]
    ELSE IF req.op = "OPCODE_DEL_IDX_DEFN"
    THEN [k \in DOMAIN defns |-> IF k = req.key THEN NoDefn ELSE defns[k]]
    ELSE defns

\* The listeners' channels after the notification a committed request fires.
NotifyCommitted(req) ==
    IF req.op = "OPCODE_ADD_IDX_DEFN" THEN notify("EVENT_CREATE_INDEX", req.content)
    ELSE IF req.op = "OPCODE_DEL_IDX_DEFN" THEN notify("EVENT_DROP_INDEX", req.key)
    ELSE evtCh

\* unmarshallTimestamp(wrapper.Timestamp): the timestamp of a serialized report
unmarshallTimestamp(data) ==
    [bucket |-> data[1], vb |-> data[2], seq |-> data[3], epoch |-> data[4]]

\* IndexManager.notifyNewTimestamp(wrapper), run by one caller at a time: the
\* channels after the timestamp is put on its stream's channel, if that
\* channel exists and holds fewer than TIMESTAMP_NOTIFY_CH_SIZE items.
notifyNewTimestamp(made, chs, wrapper) ==
    LET streamId == wrapper[2]
        timestamp == unmarshallTimestamp(wrapper[3]) IN
    IF streamId \in made /\ Len(chs[streamId]) < TIMESTAMP_NOTIFY_CH_SIZE
    THEN [chs EXCEPT ![streamId] = Append(@, timestamp)]
    ELSE chs

\* The broadcast channels after the callback a committed request fires.
BroadcastCommitted(req) ==
    IF req.op = "OPCODE_NOTIFY_TIMESTAMP"
    THEN notifyNewTimestamp(tsChMade, tsCh, req.content)
    ELSE tsCh

\* The request at the head of the queue is committed by a majority: it is
\* applied to the repository, the listeners are notified, and NewRequest
\* returns true.
CoordCommit ==
    /\ role \in Synced
    /\ incomings # << >>
    /\ LET h == Head(incomings)
           req == h.req
           opposite(x) == cpc[x] = "unblocked" /\ cwhy[x] = "committed"
                             /\ creq[x].req.key = req.key /\ creq[x].req.op # req.op IN
       /\ incomings' = Tail(incomings)
       /\ repoDefn' = ApplyToRepo(repoDefn, req)
       /\ evtCh' = NotifyCommitted(req)
       /\ tsCh' = BroadcastCommitted(req)
       /\ Unblock({h}, TRUE, "committed")
       /\ cstale' = [x \in Callers |->
              IF h.caller = DDLCaller(x) THEN FALSE
              ELSE cstale[x] \/ (req.op # "OPCODE_NOTIFY_TIMESTAMP" /\ opposite(x))]
       /\ okCreate' = [k \in IndexKeys |->
              IF k = req.key /\ req.op = "OPCODE_DEL_IDX_DEFN" THEN FALSE ELSE okCreate[k]]
       /\ okDelete' = [k \in IndexKeys |->
              IF k = req.key /\ req.op = "OPCODE_ADD_IDX_DEFN" THEN FALSE ELSE okDelete[k]]
    /\ UNCHANGED <<merge_vars, tsChMade, tsLast, notif_vars, more_vars, role, creq, ddlRet, repoTs, notifiers, wantCreate,
                   mgr_vars, mInterval, env_vars, klocal_vars, khist_vars>>

\* The request at the head of the queue is not acknowledged by a majority
\* within the timeout: NewRequest returns false and nothing is applied.
CoordTimeout ==
    /\ role \in Synced
    /\ incomings # << >>
    /\ incomings' = Tail(incomings)
    /\ Unblock({Head(incomings)}, FALSE, "timeout")
    /\ UNCHANGED <<merge_vars, ext_vars, role, creq, ddlRet, cstale, okCreate, okDelete, repo_vars,
                   evt_vars, mgr_vars, mInterval, env_vars, klocal_vars, khist_vars>>

\* The election completes and the node becomes a follower.
BecomeFollower ==
    /\ role = "Unsynchronized"
    /\ role' = "Follower"
    /\ UNCHANGED <<merge_vars, ext_vars, incomings, ddl_vars, repo_vars, evt_vars, mgr_vars,
                   mInterval, env_vars, kpc, klocal_vars, khist_vars>>

\* The election completes and the node becomes the leader: the Coordinator
\* starts the leader-only services.
BecomeLeader(smOk) ==
    /\ role = "Unsynchronized"
    /\ nStarts < MaxTerms
    /\ role' = "Leader"
    /\ startMasterService(smOk)
    /\ kpc' = [kpc EXCEPT ![nStarts + 1] = "spawned"]
    /\ UNCHANGED <<merge_vars, ext_vars, incomings, ddl_vars, repo_vars, evt_vars,
                   env_vars, klocal_vars, khist_vars>>

\* The node loses its leader (partition, or the leader dies): every request in
\* flight is unblocked with an error, the leader-only services of a leader
\* are stopped, and the election runs again.
LoseLeader ==
    /\ role \in Synced
    /\ role' = "Unsynchronized"
    /\ Unblock({incomings[i] : i \in 1..Len(incomings)}, FALSE, "leadership lost")
    /\ incomings' = << >>
    /\ IF role = "Leader" THEN stopMasterServiceNoLock ELSE UNCHANGED <<mgr_vars, mInterval>>
    /\ UNCHANGED <<merge_vars, ext_vars, creq, ddlRet, cstale, okCreate, okDelete, repo_vars,
                   evt_vars, env_vars, klocal_vars, khist_vars>>

(***************************************************************************)
(* The timestamp keeper, IndexManager.runTimestampKeeper().                *)
(***************************************************************************)
TsKeys == Streams \X Buckets \X Vbs

KeyOf(r) == <<r.stream, r.bucket, r.vb>>

NoEntry == [seq |-> 0, epoch |-> 0, ok |-> FALSE]

\* The highest entry per vbucket of a list, as findTimestamp reports it.
DomOfList(list) == [key \in TsKeys |-> findTimestamp(list, key[1], key[2], key[3])]

\* The highest of an entry and a report.
DomWith(e, r) ==
    IF ~e.ok \/ r.seq > e.seq \/ (r.seq = e.seq /\ r.epoch > e.epoch)
    THEN [seq |-> r.seq, epoch |-> r.epoch, ok |-> TRUE]
    ELSE e

\* A keeper that does not save the first timestamp.
InitialPersistTimestamp_False == FALSE

\* persistTimestamp := true, "save the first timestamp always"
InitialPersistTimestamp == TRUE

\* A debounce that already fires when exactly the interval has elapsed.
IntervalElapsed_AtInterval(t, last, interval) == t - last >= interval

\* uint64(time.Now().UnixNano()) - lastPersistTime > m.timestampPersistInterval
IntervalElapsed(t, last, interval) == t - last > interval

\* A keeper that saves only the report at hand.
PersistedValue_OnlyCurrent(timestamps, timestamp) == <<timestamp>>

\* What the keeper hands to repo.SetStabilityTimestamps: the merged list.
PersistedValue(timestamps, timestamp) == timestamps

\* What the keeper steps leave alone.
NotKeeper == <<merge_vars, ext_vars, role, ddl_vars, repoDefn, evt_vars, mgr_vars, mInterval, now>>

\* The keeper goroutine starts: it takes the timer's output channel, sets
\* persistTimestamp and lastPersistTime, loads the saved timestamps (a new
\* list when the read fails) and enters its select.  A nil timer makes it panic.
KeeperStart(k, readOk) ==
    /\ kpc[k] = "spawned"
    /\ IF mTimer = 0
       THEN /\ kpc' = [kpc EXCEPT ![k] = "panic"]
            /\ UNCHANGED <<klocal_vars, khist_vars>>
       ELSE LET loaded == IF readOk THEN repoTs ELSE createTimestampListSerializable IN
            /\ kpc' = [kpc EXCEPT ![k] = "select"]
            /\ ktimer' = [ktimer EXCEPT ![k] = mTimer]
            /\ ksel' = [ksel EXCEPT ![k] = mStopCh]
            /\ kts' = [kts EXCEPT ![k] = loaded]
            /\ kflag' = [kflag EXCEPT ![k] = InitialPersistTimestamp]
            /\ klast' = [klast EXCEPT ![k] = now]
            /\ kfresh' = [kfresh EXCEPT ![k] = TRUE]
            /\ kdom' = [kdom EXCEPT ![k] = DomOfList(loaded)]
            /\ UNCHANGED <<kcur, kbad, kout, kstat, khadOk, kokTime>>
    /\ UNCHANGED <<incomings, repoTs, nReports, seenStreams, NotKeeper>>

\* case <-m.timekeeperStopCh: the stop channel is closed and the keeper returns.
KeeperStopped(k) ==
    /\ kpc[k] = "select"
    /\ ksel[k] # 0
    /\ ksel[k] \in closedCh
    /\ kpc' = [kpc EXCEPT ![k] = "done"]
    /\ ktimer' = [ktimer EXCEPT ![k] = 0]
    /\ ksel' = [ksel EXCEPT ![k] = 0]
    /\ kts' = [kts EXCEPT ![k] = << >>]
    /\ kflag' = [kflag EXCEPT ![k] = FALSE]
    /\ klast' = [klast EXCEPT ![k] = 0]
    /\ kfresh' = [kfresh EXCEPT ![k] = FALSE]
    /\ kstat' = [kstat EXCEPT ![k] = "none"]
    /\ khadOk' = [khadOk EXCEPT ![k] = FALSE]
    /\ kokTime' = [kokTime EXCEPT ![k] = 0]
    /\ kdom' = [kdom EXCEPT ![k] = [key \in TsKeys |-> NoEntry]]
    /\ UNCHANGED <<kcur, kbad, kout, incomings, repoTs, nReports, seenStreams, NotKeeper>>

\* case timestamp := <-inboundch: the timer delivers report r; the keeper
\* merges it and decides whether to persist.  bad says that the report cannot
\* be marshalled.
KeeperRecv(k, r, bad) ==
    /\ kpc[k] = "select"
    /\ ktimer[k] \notin stoppedTimers
    /\ nReports < MaxReports
    /\ nReports' = nReports + 1
    /\ seenStreams' = seenStreams \cup {r.stream}
    /\ LET persist == kflag[k] \/ IntervalElapsed(now, klast[k], mInterval) IN
       /\ kts' = [kts EXCEPT ![k] = addTimestamp(@, r)]
       /\ kflag' = [kflag EXCEPT ![k] = persist]
       /\ kpc' = [kpc EXCEPT ![k] = IF persist THEN "persist" ELSE "marshal"]
       /\ kout' = [kout EXCEPT ![k] = IF persist THEN "pending" ELSE "skipped"]
    /\ kcur' = [kcur EXCEPT ![k] = r]
    /\ kbad' = [kbad EXCEPT ![k] = bad]
    /\ kfresh' = [kfresh EXCEPT ![k] = FALSE]
    /\ kdom' = [kdom EXCEPT ![k][KeyOf(r)] = DomWith(@, r)]
    /\ UNCHANGED <<ktimer, ksel, klast, kstat, khadOk, kokTime, incomings, repoTs, NotKeeper>>

\* A keeper that treats a failed SetStabilityTimestamps as done: it clears
\* persistTimestamp and advances lastPersistTime although nothing was saved.
KeeperPersist_FailureCountsAsDone(k, ok) ==
    /\ kpc[k] = "persist"
    /\ kpc' = [kpc EXCEPT ![k] = "marshal"]
    /\ repoTs' = IF ok THEN PersistedValue(kts[k], kcur[k]) ELSE repoTs
    /\ kflag' = [kflag EXCEPT ![k] = FALSE]
    /\ klast' = [klast EXCEPT ![k] = now]
    /\ kout' = [kout EXCEPT ![k] = IF ok THEN "ok" ELSE "failed"]
    /\ kstat' = [kstat EXCEPT ![k] = IF ok THEN "ok" ELSE "failed"]
    /\ khadOk' = [khadOk EXCEPT ![k] = khadOk[k] \/ ok]
    /\ kokTime' = [kokTime EXCEPT ![k] = IF ok THEN now ELSE kokTime[k]]
    /\ UNCHANGED <<ktimer, ksel, kts, kcur, kbad, kfresh, kdom, incomings,
                   nReports, seenStreams, NotKeeper>>

\* m.repo.SetStabilityTimestamps(timestamps) returns: on success the flag is
\* cleared and lastPersistTime is set; on failure nothing changes.
KeeperPersist(k, ok) ==
    /\ kpc[k] = "persist"
    /\ kpc' = [kpc EXCEPT ![k] = "marshal"]
    /\ IF ok
       THEN /\ repoTs' = PersistedValue(kts[k], kcur[k])
            /\ kflag' = [kflag EXCEPT ![k] = FALSE]
            /\ klast' = [klast EXCEPT ![k] = now]
            /\ kout' = [kout EXCEPT ![k] = "ok"]
            /\ kstat' = [kstat EXCEPT ![k] = "ok"]
            /\ khadOk' = [khadOk EXCEPT ![k] = TRUE]
            /\ kokTime' = [kokTime EXCEPT ![k] = now]
       ELSE /\ kout' = [kout EXCEPT ![k] = "failed"]
            /\ kstat' = [kstat EXCEPT ![k] = "failed"]
            /\ UNCHANGED <<repoTs, kflag, klast, khadOk, kokTime>>
    /\ UNCHANGED <<ktimer, ksel, kts, kcur, kbad, kfresh, kdom, incomings,
                   nReports, seenStreams, NotKeeper>>

\* The keeper enters its select again, reading m.timekeeperStopCh.
EnterSelect(k) ==
    /\ kpc' = [kpc EXCEPT ![k] = "select"]
    /\ ksel' = [ksel EXCEPT ![k] = mStopCh]
    /\ kcur' = [kcur EXCEPT ![k] = NoReport]
    /\ kbad' = [kbad EXCEPT ![k] = FALSE]
    /\ kout' = [kout EXCEPT ![k] = "none"]

\* A keeper that notifies only after a successful persist.
KeeperNotify_OnlyIfPersisted(k) ==
    /\ kpc[k] = "marshal"
    /\ IF kbad[k] \/ kout[k] # "ok"
       THEN /\ EnterSelect(k)
            /\ UNCHANGED incomings
       ELSE /\ incomings' = Append(incomings,
                   [caller |-> KeeperCaller(k), req |-> NotifyTimestampRequest(kcur[k])])
            /\ kpc' = [kpc EXCEPT ![k] = "blocked"]
            /\ UNCHANGED <<ksel, kcur, kbad, kout>>
    /\ UNCHANGED <<ktimer, kts, kflag, klast, khist_vars, repoTs, nReports, seenStreams,
                   NotKeeper>>

\* The keeper marshals the report and submits it with OPCODE_NOTIFY_TIMESTAMP;
\* a report that cannot be marshalled is ignored.
KeeperNotify(k) ==
    /\ kpc[k] = "marshal"
    /\ IF kbad[k]
       THEN /\ EnterSelect(k)
            /\ UNCHANGED incomings
       ELSE /\ incomings' = Append(incomings,
                   [caller |-> KeeperCaller(k), req |-> NotifyTimestampRequest(kcur[k])])
            /\ kpc' = [kpc EXCEPT ![k] = "blocked"]
            /\ UNCHANGED <<ksel, kcur, kbad, kout>>
    /\ UNCHANGED <<ktimer, kts, kflag, klast, khist_vars, repoTs, nReports, seenStreams,
                   NotKeeper>>

\* NewRequest has returned to the keeper, which goes back to its select.
KeeperResume(k) ==
    /\ kpc[k] = "unblocked"
    /\ EnterSelect(k)
    /\ UNCHANGED <<ktimer, kts, kflag, klast, khist_vars, incomings, repoTs, nReports,
                   seenStreams, NotKeeper>>

\* IndexManager.SetTimestampPersistenceInterval(elapsed)
SetTimestampPersistenceInterval(elapsed) ==
    /\ mInterval' = elapsed
    /\ UNCHANGED <<merge_vars, ext_vars, coord_vars, ddl_vars, repo_vars, evt_vars, mgr_vars,
                   env_vars, kpc, klocal_vars, khist_vars>>

\* The clock advances.
Tick ==
    /\ now < MaxTime
    /\ now' = now + 1
    /\ UNCHANGED <<merge_vars, ext_vars, coord_vars, ddl_vars, repo_vars, evt_vars, mgr_vars,
                   mInterval, nReports, seenStreams, kpc, klocal_vars, khist_vars>>

(***************************************************************************)
(* The broadcast channels of the stability timestamps.                     *)
(***************************************************************************)
\* No timestamp received yet.
NoTs == [bucket |-> "none", vb |-> 0, seq |-> 0, epoch |-> 0]

\* All the state but the broadcast channels.
NotBcast == <<merge_vars, notif_vars, more_vars, coord_vars, ddl_vars, repo_vars, evt_vars, mgr_vars, mInterval,
              env_vars, kpc, klocal_vars, khist_vars>>

\* IndexManager.GetStabilityTimestampChannel(streamId): the channel of the
\* stream is made on the first call.
GetStabilityTimestampChannel(streamId) ==
    /\ tsChMade' = tsChMade \cup {streamId}
    /\ UNCHANGED <<tsCh, tsLast, NotBcast>>

\* The subscriber of a stream takes the next timestamp off its channel.
SubscriberReceive(streamId) ==
    /\ streamId \in tsChMade
    /\ tsCh[streamId] # << >>
    /\ tsLast' = [tsLast EXCEPT ![streamId] = Head(tsCh[streamId])]
    /\ tsCh' = [tsCh EXCEPT ![streamId] = Tail(@)]
    /\ UNCHANGED <<tsChMade, NotBcast>>

\* All the state but the broadcast channels and the callers of notifyNewTimestamp.
NotNotif == <<merge_vars, more_vars, coord_vars, ddl_vars, repo_vars, evt_vars, mgr_vars, mInterval,
              env_vars, kpc, klocal_vars, khist_vars>>

\* The serialized reports handed to notifyNewTimestamp.
Wrappers == {marshallTimestampSerializable(r) : r \in KeeperReports}

\* No wrapper at hand.
NoWrapper == << >>

\* notifyNewTimestamp run by caller n, up to its test of the channel:
\* ch, ok := m.timestampCh[streamId]; if ok { if len(ch) < TIMESTAMP_NOTIFY_CH_SIZE
NotifyCheck(n, wrapper) ==
    /\ npc[n] = "idle"
    /\ IF wrapper[2] \in tsChMade /\ Len(tsCh[wrapper[2]]) < TIMESTAMP_NOTIFY_CH_SIZE
       THEN npc' = [npc EXCEPT ![n] = "send"] /\ nwrap' = [nwrap EXCEPT ![n] = wrapper]
       ELSE UNCHANGED <<npc, nwrap>>
    /\ UNCHANGED <<bcast_vars, NotNotif>>

\* ch <- timestamp by caller n: the send completes when the channel has room
\* and waits while it is full.
NotifySend(n) ==
    /\ npc[n] = "send"
    /\ Len(tsCh[nwrap[n][2]]) < TIMESTAMP_NOTIFY_CH_SIZE
    /\ tsCh' = [tsCh EXCEPT ![nwrap[n][2]] = Append(@, unmarshallTimestamp(nwrap[n][3]))]
    /\ npc' = [npc EXCEPT ![n] = "idle"]
    /\ nwrap' = [nwrap EXCEPT ![n] = NoWrapper]
    /\ UNCHANGED <<tsChMade, tsLast, NotNotif>>

(***************************************************************************)
(* Merge harness: reports arrive in every order, with repetitions.        *)
(***************************************************************************)
\* A report not merged before arrives.
MergeNew ==
    /\ mCount < MaxReports
    /\ \E r \in Reports \ mSeen :
        /\ mList' = addTimestamp(mList, r)
        /\ mSeen' = mSeen \cup {r}
    /\ mCount' = mCount + 1
    /\ UNCHANGED <<ext_vars, coord_vars, ddl_vars, repo_vars, evt_vars, mgr_vars, mInterval,
                   env_vars, kpc, klocal_vars, khist_vars>>

\* A report merged before arrives again.
MergeRepeat ==
    /\ mCount < MaxReports
    /\ \E r \in mSeen :
        /\ mList' = addTimestamp(mList, r)
        /\ mSeen' = mSeen
    /\ mCount' = mCount + 1
    /\ UNCHANGED <<ext_vars, coord_vars, ddl_vars, repo_vars, evt_vars, mgr_vars, mInterval,
                   env_vars, kpc, klocal_vars, khist_vars>>

(***************************************************************************)
(* Initial state and specifications.                                       *)
(***************************************************************************)
MergeInit ==
    /\ mList = createTimestampListSerializable
    /\ mSeen = {}
    /\ mCount = 0

DDLInit ==
    /\ role = "Unsynchronized"
    /\ incomings = << >>
    /\ cpc = [c \in Callers |-> "idle"]
    /\ creq = [c \in Callers |-> NoCall]
    /\ cret = [c \in Callers |-> FALSE]
    /\ cwhy = [c \in Callers |-> "none"]
    /\ ddlRet = "none"
    /\ cstale = [c \in Callers |-> FALSE]
    /\ okCreate = [k \in IndexKeys |-> FALSE]
    /\ okDelete = [k \in IndexKeys |-> FALSE]
    /\ repoDefn = [k \in IndexKeys |-> NoDefn]

EvtInit ==
    /\ notifiers = {}
    /\ wantCreate = {}
    /\ evtCh = [l \in Listeners |-> [k \in EventTypes |-> << >>]]

\* NewIndexManagerInternal: no leader-only service is running.
MgrInit ==
    /\ mStreamMgr = 0
    /\ mTimer = 0
    /\ mStopCh = 0
    /\ mInterval = 0
    /\ nStarts = 0
    /\ stoppedTimers = {}
    /\ closedCh = {}
    /\ now = 0
    /\ nReports = 0
    /\ seenStreams = {}

KeeperInit ==
    /\ kpc = [k \in Keepers |-> "none"]
    /\ ktimer = [k \in Keepers |-> 0]
    /\ ksel = [k \in Keepers |-> 0]
    /\ kts = [k \in Keepers |-> << >>]
    /\ kflag = [k \in Keepers |-> FALSE]
    /\ klast = [k \in Keepers |-> 0]
    /\ kcur = [k \in Keepers |-> NoReport]
    /\ kbad = [k \in Keepers |-> FALSE]
    /\ kout = [k \in Keepers |-> "none"]
    /\ kfresh = [k \in Keepers |-> FALSE]
    /\ kstat = [k \in Keepers |-> "none"]
    /\ khadOk = [k \in Keepers |-> FALSE]
    /\ kokTime = [k \in Keepers |-> 0]
    /\ kdom = [k \in Keepers |-> [key \in TsKeys |-> NoEntry]]

\* NewIndexManagerInternal: no broadcast channel is made yet.
BcastInit ==
    /\ tsChMade = {}
    /\ tsCh = [s \in Streams |-> << >>]
    /\ tsLast = [s \in Streams |-> NoTs]

\* No call of notifyNewTimestamp is running.
NotifInit ==
    /\ npc = [n \in Notifiers |-> "idle"]
    /\ nwrap = [n \in Notifiers |-> NoWrapper]

\* The mutex is free, the manager is open and no operation is running.
LockInit ==
    /\ mutex = "none"
    /\ isClosed = FALSE
    /\ ppc = [p \in Procs |-> "idle"]
    /\ pop = [p \in Procs |-> "none"]

\* The repository holds no topology and no cleanup is running.
TopoInit ==
    /\ topGlobal = [present |-> FALSE, keys |-> {}]
    /\ topRecs = {}
    /\ tpc = [p \in Procs |-> "idle"]
    /\ tkeys = [p \in Procs |-> {}]

\* The map of channels is empty and no call is running.
ChanInit ==
    /\ chMap = [s \in Streams |-> 0]
    /\ nChans = 0
    /\ chBuf = [c \in Chans |-> << >>]
    /\ gpc = [g \in Getters |-> "idle"]
    /\ gstr = [g \in Getters |-> "s1"]
    /\ gnew = [g \in Getters |-> 0]
    /\ gheld = [g \in Getters |-> [s \in Streams |-> 0]]
    /\ chFatal = FALSE

\* Nothing has been closed yet.
SeqInit ==
    /\ chCloses = [c \in Keepers |-> 0]
    /\ smCloses = [c \in Keepers |-> 0]
    /\ smMade = {}
    /\ nTeardowns = 0
    /\ startRet = "none"

ExtInit == BcastInit /\ NotifInit /\ LockInit /\ TopoInit /\ ChanInit /\ SeqInit

\* A fresh repository: no stability timestamp was ever saved.
Init == MergeInit /\ DDLInit /\ EvtInit /\ MgrInit /\ KeeperInit /\ ExtInit
            /\ repoTs = << >>

\* The records an earlier run of the node may have left in the repository:
\* none, or one with an entry of stream s2.
SavedAtStart ==
    {createTimestampListSerializable} \cup
    {addTimestamp(createTimestampListSerializable, r) :
        r \in {x \in KeeperReports : x.stream = "s2" /\ x.seq = MaxSeq}}

\* A repository that may hold the record of an earlier run.
InitSaved == MergeInit /\ DDLInit /\ EvtInit /\ MgrInit /\ KeeperInit /\ ExtInit
                 /\ repoTs \in SavedAtStart

\* DDL calls of two concurrent callers on two index names.
DDLNext ==
    \/ \E c \in Callers, d \in Defns, ok \in BOOLEAN : HandleCreateIndexDDL(c, d, ok)
    \/ \E c \in Callers, d \in Defns : HandleDeleteIndexDDL(c, d.bucket, d.name)
    \/ \E c \in Callers : HandleDDLReturn(c)
    \/ CoordCommit
    \/ CoordTimeout
    \/ BecomeFollower
    \/ BecomeLeader(TRUE)
    \/ LoseLeader

SpecDDL == Init /\ [][DDLNext]_vars

\* One caller creating and dropping one index, with two listeners.
EvtCallers == {"c1"}
EvtDefns == {d \in Defns : d.name = "idx1"}

EvtNext ==
    \/ \E c \in EvtCallers, d \in EvtDefns : HandleCreateIndexDDL(c, d, TRUE)
    \/ \E c \in EvtCallers, d \in EvtDefns : HandleDeleteIndexDDL(c, d.bucket, d.name)
    \/ \E c \in EvtCallers : HandleDDLReturn(c)
    \/ CoordCommit
    \/ CoordTimeout
    \/ BecomeFollower
    \/ BecomeLeader(TRUE)
    \/ LoseLeader
    \/ \E l \in Listeners : StartListenIndexCreate(l)
    \/ \E l \in Listeners : StopListenIndexCreate(l)
    \/ \E l \in Listeners : StartListenIndexDelete(l)
    \/ \E l \in Listeners : StopListenIndexDelete(l)
    \/ \E l \in Listeners, k \in EventTypes : ListenerReceive(l, k)

SpecEvt == Init /\ [][EvtNext]_vars

\* The leader-only services and the timestamp keeper.
KeeperNext ==
    \/ BecomeFollower
    \/ \E smOk \in BOOLEAN : BecomeLeader(smOk)
    \/ LoseLeader
    \/ CoordCommit
    \/ CoordTimeout
    \/ \E k \in Keepers, readOk \in BOOLEAN : KeeperStart(k, readOk)
    \/ \E k \in Keepers : KeeperStopped(k)
    \/ \E k \in Keepers, r \in KeeperReports, bad \in BOOLEAN : KeeperRecv(k, r, bad)
    \/ \E k \in Keepers, ok \in BOOLEAN : KeeperPersist(k, ok)
    \/ \E k \in Keepers : KeeperNotify(k)
    \/ \E k \in Keepers : KeeperResume(k)
    \/ \E i \in Intervals : SetTimestampPersistenceInterval(i)
    \/ Tick

SpecKeeper == InitSaved /\ [][KeeperNext]_vars

\* A step of keeper goroutine k that needs no report: a goroutine that can
\* run is eventually run.
KeeperStep(k) ==
    \/ \E readOk \in BOOLEAN : KeeperStart(k, readOk)
    \/ KeeperStopped(k)
    \/ \E ok \in BOOLEAN : KeeperPersist(k, ok)
    \/ KeeperNotify(k)
    \/ KeeperResume(k)

\* The Coordinator answers the request at the head of its queue.
CoordAnswer == CoordCommit \/ CoordTimeout

\* The election completes.
Elected == BecomeFollower \/ \E smOk \in BOOLEAN : BecomeLeader(smOk)

\* The keeper model under the scheduling the runtime gives: every goroutine
\* that can run does run, the election completes and the Coordinator answers
\* (by commit or timeout) every request it holds.
SpecKeeperFair ==
    /\ InitSaved /\ [][KeeperNext]_vars
    /\ \A k \in Keepers : WF_vars(KeeperStep(k))
    /\ WF_vars(CoordAnswer)
    /\ WF_vars(Elected)

\* The keeper, the Coordinator and the subscribers of the broadcast channels;
\* the clock stands still and the interval is the one set at the start.
BcastNext ==
    \/ BecomeLeader(TRUE)
    \/ LoseLeader
    \/ CoordCommit
    \/ CoordTimeout
    \/ \E k \in Keepers : KeeperStart(k, TRUE)
    \/ \E k \in Keepers : KeeperStopped(k)
    \/ \E k \in Keepers, r \in KeeperReports : KeeperRecv(k, r, FALSE)
    \/ \E k \in Keepers, ok \in BOOLEAN : KeeperPersist(k, ok)
    \/ \E k \in Keepers : KeeperNotify(k)
    \/ \E k \in Keepers : KeeperResume(k)
    \/ \E s \in Streams : GetStabilityTimestampChannel(s)
    \/ \E s \in Streams : SubscriberReceive(s)

SpecBcast == Init /\ [][BcastNext]_vars

\* Concurrent calls of notifyNewTimestamp and the subscribers of the channels.
NotifNext ==
    \/ \E s \in Streams : GetStabilityTimestampChannel(s)
    \/ \E s \in Streams : SubscriberReceive(s)
    \/ \E n \in Notifiers, w \in Wrappers : NotifyCheck(n, w)
    \/ \E n \in Notifiers : NotifySend(n)

SpecNotif == Init /\ [][NotifNext]_vars

(***************************************************************************)
(* The start, stop, Close and cleanup operations, one field access a step. *)
(***************************************************************************)
NotLock == <<merge_vars, bcast_vars, notif_vars, topo_vars, chan_vars, seq_vars, coord_vars, ddl_vars, repoDefn, evt_vars,
             env_vars, klocal_vars, khist_vars>>

\* The positions inside startMasterService after its Lock, and inside
\* stopMasterServiceNoLock.
StartBody == {"newTimer", "makeStopCh", "newStreamMgr"}
StopBody == {"streamMgr", "timerCheck", "stopAll", "timerNil", "chCheck", "closeCh", "chNil"}

\* The run-time panics of the stop sequence.
Panics == {"panic: nil timer", "panic: close of nil channel", "panic: close of closed channel"}

\* An unrecovered panic ends the program.
Running == \A p \in Procs : ppc[p] \notin Panics

\* The operations that take the mutex first.
Locking == {"startMasterService", "stopMasterService", "Close"}

\* Goroutine p moves on to position pc; a panic runs the deferred Unlock.
Goto(p, pc) ==
    /\ ppc' = [ppc EXCEPT ![p] = pc]
    /\ mutex' = IF pc \in Panics /\ mutex = p THEN "none" ELSE mutex

\* Where the caller of stopMasterServiceNoLock continues when it returns.
AfterNoLock(p) ==
    CASE pop[p] = "stopMasterService" -> "unlock"
      [] pop[p] = "Close" -> "setClosed"
      [] pop[p] = "CleanupStabilityTimestamp" -> "deleteMeta"

\* Goroutine p calls op: start, stop and Close begin with mutex.Lock(),
\* CleanupStabilityTimestamp begins with stopMasterServiceNoLock().
LockCall(p, op) ==
    /\ Running
    /\ ppc[p] = "idle"
    /\ op = "startMasterService" => nStarts < MaxStarts
    /\ pop' = [pop EXCEPT ![p] = op]
    /\ ppc' = [ppc EXCEPT ![p] = IF op \in Locking THEN "lock" ELSE "streamMgr"]
    /\ UNCHANGED <<mutex, isClosed, mgr_vars, mInterval, kpc, repoTs, NotLock>>

\* m.mutex.Lock() returns; Close returns at once when the manager is closed.
LockAcquire(p) ==
    /\ Running
    /\ ppc[p] = "lock"
    /\ mutex = "none"
    /\ mutex' = p
    /\ ppc' = [ppc EXCEPT ![p] =
                 CASE pop[p] = "startMasterService" -> "newTimer"
                   [] pop[p] = "stopMasterService" -> "streamMgr"
                   [] pop[p] = "Close" -> IF isClosed THEN "unlock" ELSE "streamMgr"]
    /\ UNCHANGED <<isClosed, pop, mgr_vars, mInterval, kpc, repoTs, NotLock>>

\* startMasterService: the interval and m.timer = newTimer(m.repo)
StartTimer(p) ==
    /\ Running
    /\ ppc[p] = "newTimer"
    /\ nStarts' = nStarts + 1
    /\ mInterval' = TIMESTAMP_PERSIST_INTERVAL
    /\ mTimer' = nStarts + 1
    /\ Goto(p, "makeStopCh")
    /\ UNCHANGED <<isClosed, pop, mStreamMgr, mStopCh, stoppedTimers, closedCh, kpc, repoTs,
                   NotLock>>

\* startMasterService: m.timekeeperStopCh = make(chan bool); go m.runTimestampKeeper()
StartStopCh(p) ==
    /\ Running
    /\ ppc[p] = "makeStopCh"
    /\ mStopCh' = nStarts
    /\ kpc' = [kpc EXCEPT ![nStarts] = "spawned"]
    /\ Goto(p, "newStreamMgr")
    /\ UNCHANGED <<isClosed, pop, mStreamMgr, mTimer, nStarts, stoppedTimers, closedCh,
                   mInterval, repoTs, NotLock>>

\* startMasterService: m.streamMgr, err = NewStreamManager(...)
StartStreamMgr(p, smOk) ==
    /\ Running
    /\ ppc[p] = "newStreamMgr"
    /\ mStreamMgr' = IF smOk THEN nStarts ELSE 0
    /\ Goto(p, "unlock")
    /\ UNCHANGED <<isClosed, pop, mTimer, mStopCh, nStarts, stoppedTimers, closedCh,
                   mInterval, kpc, repoTs, NotLock>>

\* stopMasterServiceNoLock: if m.streamMgr != nil { Close(); m.streamMgr = nil }
StopStreamMgr(p) ==
    /\ Running
    /\ ppc[p] = "streamMgr"
    /\ mStreamMgr' = 0
    /\ Goto(p, "timerCheck")
    /\ UNCHANGED <<isClosed, pop, mTimer, mStopCh, nStarts, stoppedTimers, closedCh,
                   mInterval, kpc, repoTs, NotLock>>

\* stopMasterServiceNoLock: if m.timer != nil
StopTimerCheck(p) ==
    /\ Running
    /\ ppc[p] = "timerCheck"
    /\ Goto(p, IF mTimer # 0 THEN "stopAll" ELSE AfterNoLock(p))
    /\ UNCHANGED <<isClosed, pop, mgr_vars, mInterval, kpc, repoTs, NotLock>>

\* stopMasterServiceNoLock: m.timer.stopAll()
StopTimerStopAll(p) ==
    /\ Running
    /\ ppc[p] = "stopAll"
    /\ stoppedTimers' = IF mTimer # 0 THEN stoppedTimers \cup {mTimer} ELSE stoppedTimers
    /\ Goto(p, IF mTimer # 0 THEN "timerNil" ELSE "panic: nil timer")
    /\ UNCHANGED <<isClosed, pop, mStreamMgr, mTimer, mStopCh, nStarts, closedCh,
                   mInterval, kpc, repoTs, NotLock>>

\* stopMasterServiceNoLock: m.timer = nil
StopTimerNil(p) ==
    /\ Running
    /\ ppc[p] = "timerNil"
    /\ mTimer' = 0
    /\ Goto(p, "chCheck")
    /\ UNCHANGED <<isClosed, pop, mStreamMgr, mStopCh, nStarts, stoppedTimers, closedCh,
                   mInterval, kpc, repoTs, NotLock>>

\* stopMasterServiceNoLock: if m.timekeeperStopCh != nil
StopChCheck(p) ==
    /\ Running
    /\ ppc[p] = "chCheck"
    /\ Goto(p, IF mStopCh # 0 THEN "closeCh" ELSE AfterNoLock(p))
    /\ UNCHANGED <<isClosed, pop, mgr_vars, mInterval, kpc, repoTs, NotLock>>

\* stopMasterServiceNoLock: close(m.timekeeperStopCh)
StopChClose(p) ==
    /\ Running
    /\ ppc[p] = "closeCh"
    /\ closedCh' = IF mStopCh # 0 THEN closedCh \cup {mStopCh} ELSE closedCh
    /\ Goto(p, CASE mStopCh = 0 -> "panic: close of nil channel"
                 [] mStopCh # 0 /\ mStopCh \in closedCh -> "panic: close of closed channel"
                 [] OTHER -> "chNil")
    /\ UNCHANGED <<isClosed, pop, mStreamMgr, mTimer, mStopCh, nStarts, stoppedTimers,
                   mInterval, kpc, repoTs, NotLock>>

\* stopMasterServiceNoLock: m.timekeeperStopCh = nil
StopChNil(p) ==
    /\ Running
    /\ ppc[p] = "chNil"
    /\ mStopCh' = 0
    /\ Goto(p, AfterNoLock(p))
    /\ UNCHANGED <<isClosed, pop, mStreamMgr, mTimer, nStarts, stoppedTimers, closedCh,
                   mInterval, kpc, repoTs, NotLock>>

\* Close: the repository, coordinator, event manager and request handler
\* are closed and m.isClosed = true
CloseFinish(p) ==
    /\ Running
    /\ ppc[p] = "setClosed"
    /\ isClosed' = TRUE
    /\ Goto(p, "unlock")
    /\ UNCHANGED <<pop, mgr_vars, mInterval, kpc, repoTs, NotLock>>

\* CleanupStabilityTimestamp: m.repo.deleteMeta(stabilityTimestampKey()),
\* whose error is logged only.
CleanupDelete(p, ok) ==
    /\ Running
    /\ ppc[p] = "deleteMeta"
    /\ repoTs' = IF ok THEN << >> ELSE repoTs
    /\ ppc' = [ppc EXCEPT ![p] = "idle"]
    /\ pop' = [pop EXCEPT ![p] = "none"]
    /\ UNCHANGED <<mutex, isClosed, mgr_vars, mInterval, kpc, NotLock>>

\* The deferred m.mutex.Unlock() of start, stop and Close.
Unlock(p) ==
    /\ Running
    /\ ppc[p] = "unlock"
    /\ mutex' = "none"
    /\ ppc' = [ppc EXCEPT ![p] = "idle"]
    /\ pop' = [pop EXCEPT ![p] = "none"]
    /\ UNCHANGED <<isClosed, mgr_vars, mInterval, kpc, repoTs, NotLock>>

\* Goroutines that call start, stop, Close and cleanup concurrently.
LockNext ==
    \/ \E p \in Procs, op \in Ops : LockCall(p, op)
    \/ \E p \in Procs : LockAcquire(p)
    \/ \E p \in Procs : StartTimer(p)
    \/ \E p \in Procs : StartStopCh(p)
    \/ \E p \in Procs, smOk \in BOOLEAN : StartStreamMgr(p, smOk)
    \/ \E p \in Procs : StopStreamMgr(p)
    \/ \E p \in Procs : StopTimerCheck(p)
    \/ \E p \in Procs : StopTimerStopAll(p)
    \/ \E p \in Procs : StopTimerNil(p)
    \/ \E p \in Procs : StopChCheck(p)
    \/ \E p \in Procs : StopChClose(p)
    \/ \E p \in Procs : StopChNil(p)
    \/ \E p \in Procs : CloseFinish(p)
    \/ \E p \in Procs, ok \in BOOLEAN : CleanupDelete(p, ok)
    \/ \E p \in Procs : Unlock(p)

SpecLock == InitSaved /\ [][LockNext]_vars

(***************************************************************************)
(* The topology records and IndexManager.CleanupTopology().                *)
(***************************************************************************)
NotTopo == <<merge_vars, bcast_vars, notif_vars, lock_vars, chan_vars, seq_vars, coord_vars, ddl_vars, repo_vars,
             evt_vars, mgr_vars, mInterval, env_vars, kpc, klocal_vars, khist_vars>>

\* IndexManager.SetTopologyByBucket(bucket, topology), called while no cleanup
\* runs: the repository saves the bucket's record and lists its key in the
\* GlobalTopology record.
SetTopologyByBucket(b) ==
    /\ \A p \in Procs : tpc[p] = "idle"
    /\ topRecs' = topRecs \cup {b}
    /\ topGlobal' = [present |-> TRUE, keys |-> topGlobal.keys \cup {b}]
    /\ UNCHANGED <<tpc, tkeys, NotTopo>>

\* Goroutine p calls CleanupTopology.
CleanupTopologyCall(p) ==
    /\ tpc[p] = "idle"
    /\ tpc' = [tpc EXCEPT ![p] = "read"]
    /\ UNCHANGED <<topGlobal, topRecs, tkeys, NotTopo>>

\* CleanupTopology: globalTop, err := m.GetGlobalTopology(); an error (the
\* read fails or there is no record) is logged and the call returns.
CleanupTopologyRead(p, readOk) ==
    /\ tpc[p] = "read"
    /\ IF readOk /\ topGlobal.present
       THEN /\ tpc' = [tpc EXCEPT ![p] = "keys"]
            /\ tkeys' = [tkeys EXCEPT ![p] = topGlobal.keys]
       ELSE /\ tpc' = [tpc EXCEPT ![p] = "idle"]
            /\ UNCHANGED tkeys
    /\ UNCHANGED <<topGlobal, topRecs, NotTopo>>

\* CleanupTopology: m.repo.deleteMeta(key) for the next key of
\* globalTop.TopologyKeys; an error is logged and the loop goes on.
CleanupTopologyKey(p, key, ok) ==
    /\ tpc[p] = "keys"
    /\ key \in tkeys[p]
    /\ topRecs' = IF ok THEN topRecs \ {key} ELSE topRecs
    /\ tkeys' = [tkeys EXCEPT ![p] = tkeys[p] \ {key}]
    /\ UNCHANGED <<topGlobal, tpc, NotTopo>>

\* CleanupTopology: after the loop, m.repo.deleteMeta(globalTopologyKey());
\* an error is logged.
CleanupTopologyGlobal(p, ok) ==
    /\ tpc[p] = "keys"
    /\ tkeys[p] = {}
    /\ topGlobal' = IF ok THEN [present |-> FALSE, keys |-> {}] ELSE topGlobal
    /\ tpc' = [tpc EXCEPT ![p] = "idle"]
    /\ UNCHANGED <<topRecs, tkeys, NotTopo>>

\* Topology writes followed by concurrent cleanups.
CleanupNext ==
    \/ \E b \in TopoBuckets : SetTopologyByBucket(b)
    \/ \E p \in Procs : CleanupTopologyCall(p)
    \/ \E p \in Procs, readOk \in BOOLEAN : CleanupTopologyRead(p, readOk)
    \/ \E p \in Procs, key \in TopoBuckets, ok \in BOOLEAN : CleanupTopologyKey(p, key, ok)
    \/ \E p \in Procs, ok \in BOOLEAN : CleanupTopologyGlobal(p, ok)

SpecCleanup == Init /\ [][CleanupNext]_vars

(***************************************************************************)
(* GetStabilityTimestampChannel called concurrently, one map access a step. *)
(***************************************************************************)
NotChan == <<merge_vars, bcast_vars, notif_vars, lock_vars, topo_vars, seq_vars, coord_vars, ddl_vars,
             repo_vars, evt_vars, mgr_vars, mInterval, env_vars, kpc, klocal_vars,
             khist_vars>>

\* GetStabilityTimestampChannel: ch, ok := m.timestampCh[streamId]; with an
\* entry the call returns it.
GetChannelLookup(g, streamId) ==
    /\ ~chFatal
    /\ gpc[g] = "idle"
    /\ IF chMap[streamId] # 0
       THEN /\ gheld' = [gheld EXCEPT ![g][streamId] = chMap[streamId]]
            /\ UNCHANGED <<gpc, gstr>>
       ELSE /\ gpc' = [gpc EXCEPT ![g] = "make"]
            /\ gstr' = [gstr EXCEPT ![g] = streamId]
            /\ UNCHANGED gheld
    /\ UNCHANGED <<chMap, nChans, chBuf, gnew, chFatal, NotChan>>

\* GetStabilityTimestampChannel: ch = make(chan *common.TsVbuuid, TIMESTAMP_NOTIFY_CH_SIZE)
GetChannelMake(g) ==
    /\ ~chFatal
    /\ gpc[g] = "make"
    /\ nChans < MaxChans
    /\ nChans' = nChans + 1
    /\ gnew' = [gnew EXCEPT ![g] = nChans + 1]
    /\ gpc' = [gpc EXCEPT ![g] = "insert"]
    /\ UNCHANGED <<chMap, chBuf, gstr, gheld, chFatal, NotChan>>

\* GetStabilityTimestampChannel: m.timestampCh[streamId] = ch; return ch.
\* The map is written without a lock: while another goroutine is writing it
\* too the runtime may end the program (detected says that it does).
GetChannelInsert(g, detected) ==
    /\ ~chFatal
    /\ gpc[g] = "insert"
    /\ detected => \E h \in Getters \ {g} : gpc[h] = "insert"
    /\ IF detected
       THEN /\ chFatal' = TRUE
            /\ UNCHANGED <<chMap, gpc, gnew, gheld>>
       ELSE /\ chMap' = [chMap EXCEPT ![gstr[g]] = gnew[g]]
            /\ gheld' = [gheld EXCEPT ![g][gstr[g]] = gnew[g]]
            /\ gpc' = [gpc EXCEPT ![g] = "idle"]
            /\ gnew' = [gnew EXCEPT ![g] = 0]
            /\ UNCHANGED chFatal
    /\ UNCHANGED <<nChans, chBuf, gstr, NotChan>>

\* notifyNewTimestamp for a timestamp of streamId: it is put on the channel
\* the map holds for the stream, if there is one and it is not full.
ChannelNotify(streamId, ts) ==
    /\ ~chFatal
    /\ chMap[streamId] # 0
    /\ Len(chBuf[chMap[streamId]]) < TIMESTAMP_NOTIFY_CH_SIZE
    /\ chBuf' = [chBuf EXCEPT ![chMap[streamId]] = Append(@, ts)]
    /\ UNCHANGED <<chMap, nChans, gpc, gstr, gnew, gheld, chFatal, NotChan>>

\* Goroutine g receives from the channel it was given for streamId.
ChannelReceive(g, streamId) ==
    /\ ~chFatal
    /\ gheld[g][streamId] # 0
    /\ chBuf[gheld[g][streamId]] # << >>
    /\ chBuf' = [chBuf EXCEPT ![gheld[g][streamId]] = Tail(@)]
    /\ UNCHANGED <<chMap, nChans, gpc, gstr, gnew, gheld, chFatal, NotChan>>

\* Concurrent subscribers and notifications.
ChanNext ==
    \/ \E g \in Getters, s \in Streams : GetChannelLookup(g, s)
    \/ \E g \in Getters : GetChannelMake(g)
    \/ \E g \in Getters, detected \in BOOLEAN : GetChannelInsert(g, detected)
    \/ \E s \in Streams, ts \in Seqnos : ChannelNotify(s, ts)
    \/ \E g \in Getters, s \in Streams : ChannelReceive(g, s)

SpecChan == Init /\ [][ChanNext]_vars

(***************************************************************************)
(* startMasterService, stopMasterService and Close called one after the     *)
(* other, with the keeper goroutines they spawn.                            *)
(***************************************************************************)
NotSeq == <<merge_vars, bcast_vars, notif_vars, topo_vars, chan_vars, mutex, ppc, pop,
            coord_vars, ddl_vars, repo_vars, evt_vars, env_vars, klocal_vars, khist_vars>>

\* What stopMasterServiceNoLock closes: the StreamManager the field holds,
\* and the stop channel if the timer is not nil.
StopCloses ==
    /\ smCloses' = IF mStreamMgr # 0 THEN [smCloses EXCEPT ![mStreamMgr] = @ + 1] ELSE smCloses
    /\ chCloses' = IF mTimer # 0 /\ mStopCh # 0 THEN [chCloses EXCEPT ![mStopCh] = @ + 1]
                   ELSE chCloses

\* A call of startMasterService(), from Lock to Unlock.
CallStart(smOk) ==
    /\ nStarts < MaxStarts
    /\ startMasterService(smOk)
    /\ kpc' = [kpc EXCEPT ![nStarts + 1] = "spawned"]
    /\ smMade' = IF smOk THEN smMade \cup {nStarts + 1} ELSE smMade
    /\ startRet' = startMasterServiceResult(smOk)
    /\ UNCHANGED <<isClosed, chCloses, smCloses, nTeardowns, NotSeq>>

\* A call of stopMasterService(), from Lock to Unlock.
CallStop ==
    /\ stopMasterServiceNoLock
    /\ StopCloses
    /\ UNCHANGED <<isClosed, smMade, nTeardowns, startRet, kpc, NotSeq>>

\* A call of Close(), from Lock to Unlock: nothing happens when the manager
\* is closed already.
CallClose ==
    /\ IF isClosed
       THEN UNCHANGED <<mgr_vars, mInterval, isClosed, chCloses, smCloses, nTeardowns>>
       ELSE /\ stopMasterServiceNoLock
            /\ StopCloses
            /\ nTeardowns' = nTeardowns + 1
            /\ isClosed' = TRUE
    /\ UNCHANGED <<smMade, startRet, kpc, NotSeq>>

\* The report the timers of this model deliver.
SeqReports == {r \in KeeperReports : r.stream = "s1" /\ r.seq = MaxSeq}

SeqNext ==
    \/ \E smOk \in BOOLEAN : CallStart(smOk)
    \/ CallStop
    \/ CallClose
    \/ BecomeFollower
    \/ CoordTimeout
    \/ \E k \in Keepers : KeeperStart(k, TRUE)
    \/ \E k \in Keepers : KeeperStopped(k)
    \/ \E k \in Keepers, r \in SeqReports : KeeperRecv(k, r, FALSE)
    \/ \E k \in Keepers : KeeperPersist(k, TRUE)
    \/ \E k \in Keepers : KeeperNotify(k)
    \/ \E k \in Keepers : KeeperResume(k)

SpecSeq == Init /\ [][SeqNext]_vars

MergeNext == MergeNew \/ MergeRepeat

SpecMerge == Init /\ [][MergeNext]_vars

\* The reports seen so far for the key of r.
SeenFor(r) == {x \in mSeen : SameKey(x, r)}

\* The entries of the list for the key of r.
EntriesFor(list, r) == {i \in 1..Len(list) : SameKey(list[i], r)}

\* C5: merging is commutative and idempotent: whatever the arrival order and
\* the repetitions, the list holds exactly one entry per reported vbucket, that
\* entry is the highest of the reports seen for it, and for a fixed epochId the
\* merged sequenceNumber never decreases as further reports are merged.
C5_MergeState ==
    /\ \A i \in 1..Len(mList) : mList[i] \in mSeen
    /\ \A r \in mSeen :
        /\ Cardinality(EntriesFor(mList, r)) = 1
        /\ \A x \in SeenFor(r) :
              LET e == mList[IndexOf(mList, r)] IN e = x \/ Higher(e, x)

C5_MergeStep ==
    \A i \in 1..Len(mList) :
        /\ HasKey(mList', mList[i])
        /\ LET e == mList'[IndexOf(mList', mList[i])] IN
           e.epoch = mList[i].epoch => e.seq >= mList[i].seq

C5_MergeCommutativeIdempotent == []C5_MergeState /\ [][C5_MergeStep]_vars

\* C5 witness: three merges (with a repetition or a lower report among them)
\* left one entry for a key that was reported more than once.
C5_Witness ==
    /\ mCount = MaxReports
    /\ \E r \in mSeen : Cardinality(SeenFor(r)) >= 2 /\ Cardinality(EntriesFor(mList, r)) = 1

\* Two reports of one vbucket with different epochIds are all that was seen for it.
EpochPair(a, b) == a \in mSeen /\ b \in mSeen /\ SameKey(a, b) /\ a.epoch > b.epoch
                      /\ SeenFor(a) = {a, b}

\* C6 (as stated): of two reports with different epochIds the merged entry is
\* always the one with the higher epochId.
C6_HigherEpochAlwaysWins ==
    \A a, b \in mSeen : EpochPair(a, b) => mList[IndexOf(mList, a)] = a

\* C6 (amended): of two reports with different epochIds the merged entry is the
\* one with the higher sequenceNumber; the higher epochId wins exactly when the
\* sequence numbers are equal.
C6_HigherSeqWinsEpochBreaksTies ==
    \A a, b \in mSeen : EpochPair(a, b) =>
        mList[IndexOf(mList, a)] = (IF b.seq > a.seq THEN b ELSE a)

\* C6 witness: the report with the lower epochId but the higher sequenceNumber
\* is the merged entry.
C6_Witness ==
    \E a, b \in mSeen : EpochPair(a, b) /\ b.seq > a.seq /\ mList[IndexOf(mList, a)] = b


(***************************************************************************)
(* Claims about DDL handling, lookups and listeners.                       *)
(***************************************************************************)
\* The DDL call of caller c returns in this step.
DDLReturns(c) == cpc[c] = "unblocked" /\ cpc'[c] = "idle"

\* C1: a DDL call returns success (nil) only when NewRequest returned true
\* because its request was committed; a request that timed out, lost its
\* leader or was turned away by an unsynchronized node makes the call return
\* a non-nil error.
C1_NoFalsePositiveSuccess ==
    [][\A c \in Callers : DDLReturns(c) =>
          /\ (ddlRet' = "nil") <=> (cret[c] /\ cwhy[c] = "committed")
          /\ cwhy[c] \in {"timeout", "leadership lost", "unsynchronized"}
                => ddlRet' # "nil"]_vars

\* C1 witness: one call has returned success while another call's request has
\* failed and is about to return.
C1_Witness ==
    /\ ddlRet = "nil"
    /\ \E c \in Callers : cpc[c] = "unblocked" /\ ~cret[c]

\* The request of caller c is in the Coordinator's queue.
Queued(c) == \E i \in 1..Len(incomings) : incomings[i].caller = DDLCaller(c)

C3_LookupAfterDDL ==
    \A d \in Defns :
        LET k == indexName(d.bucket, d.name) IN
        /\ okCreate[k] => GetIndexDefnByName(d.bucket, d.name) = [defn |-> d, err |-> "nil"]
        /\ okDelete[k] => GetIndexDefnByName(d.bucket, d.name).err = "not found"

\* C3 witness: an index was created and then dropped, both with success, while
\* another index created with success is still there.
C3_Witness ==
    \E k1, k2 \in IndexKeys : k1 # k2 /\ okCreate[k1] /\ okDelete[k2]
        /\ ddlRet = "nil"

\* A create-index request is committed in this step.
CommitsCreate ==
    /\ incomings # << >>
    /\ Head(incomings).req.op = "OPCODE_ADD_IDX_DEFN"
    /\ incomings' = Tail(incomings)
    /\ Head(incomings).caller.kind = "ddl"
    /\ cwhy'[Head(incomings).caller.id] = "committed"
    /\ cpc[Head(incomings).caller.id] = "blocked"

CreateCh(l) == evtCh[l]["EVENT_CREATE_INDEX"]

\* C4 (as stated): every listener registered for index-created when a create
\* is committed receives exactly one notification for it, every other listener
\* none.
C4_ExactlyOneNotification ==
    [][CommitsCreate => \A l \in Listeners :
          evtCh'[l]["EVENT_CREATE_INDEX"] =
              IF l \in wantCreate
              THEN Append(CreateCh(l), Head(incomings).req.content)
              ELSE CreateCh(l)]_vars

\* C4 (amended): a listener registered for index-created when a create is
\* committed receives exactly one notification for it if its channel has room
\* and none if its channel is full (the notification is dropped); a listener
\* that is not registered receives none.
C4_OneNotificationUnlessFull ==
    [][CommitsCreate => \A l \in Listeners :
          evtCh'[l]["EVENT_CREATE_INDEX"] =
              IF l \in wantCreate /\ Len(CreateCh(l)) < EvtChSize
              THEN Append(CreateCh(l), Head(incomings).req.content)
              ELSE CreateCh(l)]_vars

\* C4 witness: after a commit, a registered listener holds the notification
\* and a listener that unregistered holds none.
C4_Witness ==
    \E c \in Callers, l1, l2 \in Listeners :
        /\ cwhy[c] = "committed" /\ creq[c].req.op = "OPCODE_ADD_IDX_DEFN"
        /\ l1 \in wantCreate /\ CreateCh(l1) = <<creq[c].req.content>>
        /\ l2 \notin wantCreate /\ CreateCh(l2) = << >>

(***************************************************************************)
(* Claims about the timestamp keeper.                                      *)
(***************************************************************************)
\* Keeper k receives a report in this step.
Receives(k) == kpc[k] = "select" /\ kpc'[k] \in {"persist", "marshal"}

\* The SetStabilityTimestamps call of keeper k succeeds in this step.
PersistSucceeds(k) == kpc[k] = "persist" /\ kpc'[k] = "marshal" /\ kout'[k] = "ok"

\* Entry f is at least entry e by the merge rule.
Dominates(f, e) == f.ok /\ (f.seq > e.seq \/ (f.seq = e.seq /\ f.epoch >= e.epoch))

\* C7: when the keeper's SetStabilityTimestamps succeeds, a read of the saved
\* record that follows returns, for every vbucket, an entry that dominates
\* every report merged before the persist and every entry loaded when the
\* keeper started; GetStabilityTimestampForVb returns the seqno of that entry.
C7_DurabilityRoundTrip ==
    [][\A k \in Keepers : PersistSucceeds(k) =>
          \A key \in TsKeys :
              LET f == findTimestamp(repoTs', key[1], key[2], key[3])
                  g == GetStabilityTimestampForVb(repoTs', FALSE, key[1], key[2], key[3]) IN
              /\ kdom[k][key].ok =>
                    /\ Dominates(f, kdom[k][key])
                    /\ g = [seqno |-> f.seq, ok |-> TRUE]
                    /\ g.seqno >= kdom[k][key].seq
              /\ ~kdom[k][key].ok => ~g.ok]_vars

\* C7 witness: a persist has succeeded for a keeper that had loaded an entry
\* of one stream at its start and has merged one report of the other stream.
C7_Witness ==
    \E k \in Keepers :
        /\ kpc[k] = "marshal" /\ kout[k] = "ok"
        /\ nReports = 1
        /\ Len(kts[k]) = 2 /\ repoTs = kts[k]

\* C8 (as stated): the first report ever observed for a stream causes a
\* persist attempt while it is processed, whatever the time elapsed and
\* whichever other streams have reported.
C8_FirstReportOfStreamPersists ==
    [][\A k \in Keepers : (Receives(k) /\ kcur'[k].stream \notin seenStreams)
          => kpc'[k] = "persist"]_vars

\* C8 (amended): the first report a keeper processes after its start causes a
\* persist attempt, whatever its stream; the first report of a further stream
\* causes one only if the keeper's previous attempt failed or more than
\* timestampPersistInterval has elapsed since its last successful persist.
C8_FirstReportOfKeeperPersists ==
    [][\A k \in Keepers : Receives(k) =>
          /\ kfresh[k] => kpc'[k] = "persist"
          /\ (~kfresh[k] /\ kcur'[k].stream \notin seenStreams) =>
                (kpc'[k] = "persist" <=>
                    (kstat[k] = "failed" \/ now - kokTime[k] > mInterval))]_vars

\* C8 witness: two reports were delivered, one of each stream, and the persist
\* of the second was skipped by the debounce.
C8_Witness ==
    \E k \in Keepers :
        /\ nReports = 2 /\ seenStreams = Streams
        /\ kpc[k] = "marshal" /\ kout[k] = "skipped"

\* C9 (as stated): after a successful persist the keeper attempts a persist
\* for a report exactly when more than timestampPersistInterval has elapsed
\* since that persist.
C9_PersistOnlyAfterInterval ==
    [][\A k \in Keepers : (Receives(k) /\ khadOk[k]) =>
          (kpc'[k] = "persist" <=> now - kokTime[k] > mInterval)]_vars

\* C9 (amended): after a successful persist the keeper attempts a persist for
\* a report exactly when more than timestampPersistInterval has elapsed since
\* that persist or its previous attempt failed: a failed attempt is retried
\* on the next report, whatever the interval then is.
C9_PersistAfterIntervalOrFailure ==
    [][\A k \in Keepers : (Receives(k) /\ khadOk[k]) =>
          (kpc'[k] = "persist" <=>
              (now - kokTime[k] > mInterval \/ kstat[k] = "failed"))]_vars

\* C9 witness: after a successful persist and a failed one, the keeper retries
\* although no more than the interval has elapsed since the successful one.
C9_Witness ==
    \E k \in Keepers :
        /\ khadOk[k] /\ kstat[k] = "failed" /\ kpc[k] = "persist"
        /\ now - kokTime[k] <= mInterval

\* Keeper k submits its request to the Coordinator in this step.
Submits(k) == kpc[k] = "marshal" /\ kpc'[k] = "blocked"

Delivered(s) == tsCh[s] # << >> /\ tsCh'[s] = Tail(tsCh[s]) /\ tsLast'[s] = Head(tsCh[s])

\* C11: every timestamp delivered on a stream's broadcast channel is the
\* merged checkpoint, so for each vbucket the timestamps a subscriber receives
\* never go backwards under the merge rule, whatever the order of the reports.
C11_BroadcastNeverBackwards ==
    [][\A s \in Streams :
          (Delivered(s) /\ tsLast[s] # NoTs /\ tsLast[s].vb = tsLast'[s].vb)
              => ~Higher(tsLast[s], tsLast'[s])]_vars

\* C12: notifyNewTimestamp never blocks: no call waits to send on a channel
\* that is full, in any interleaving of concurrent calls and receives.
C12_NotifyNeverBlocks ==
    \A n \in Notifiers :
        npc[n] = "send" => Len(tsCh[nwrap[n][2]]) < TIMESTAMP_NOTIFY_CH_SIZE

(***************************************************************************)
(* Claims about stopping the leader-only services.                         *)
(***************************************************************************)
\* The leader term that started keeper k has been stopped.
TermStopped(k) == k \in stoppedTimers

\* The loop of keeper k has ended.
KeeperEnded(k) == kpc[k] \in {"done", "panic"}

\* C13: after stopMasterService has returned, the keeper loop started by the
\* preceding startMasterService eventually terminates, in every interleaving.
C13_StopTerminatesKeeper ==
    \A k \in Keepers : TermStopped(k) ~> KeeperEnded(k)

\* C14: once stopMasterService has returned, the keeper of the ended leader
\* term calls SetStabilityTimestamps no more and submits no further
\* OPCODE_NOTIFY_TIMESTAMP request.
C14_NoWritesAfterStop ==
    [][\A k \in Keepers : TermStopped(k) =>
          /\ ~(kpc[k] = "persist" /\ kpc'[k] = "marshal")
          /\ ~Submits(k)]_vars


\* C15: start, stop and Close of the leader-only services run under the one
\* mutex, so whoever is inside the start sequence or the stop sequence holds
\* it, and no stop channel is closed twice.
C15_StartStopUnderMutex ==
    /\ \A p \in Procs : ppc[p] \in StartBody \cup StopBody => mutex = p
    /\ \A p \in Procs : ppc[p] # "panic: close of closed channel"

\* C16: the keeper's loop is suspended only in its select, on the inbound
\* channel and the stop channel: it never waits inside Coordinator.NewRequest
\* for an answer.
C16_KeeperWaitsOnlyInSelect == \A k \in Keepers : kpc[k] # "blocked"

LoopRunning(k) ==
    \/ kpc[k] \in {"persist", "marshal", "blocked", "unblocked"}
    \/ kpc[k] = "select" /\ ksel[k] \notin closedCh

\* C18: the leader-only services are active only on the leader: whenever the
\* node is not the leader, streamMgr and timer are nil and no keeper loop is
\* running.
C18_ServicesOnlyOnLeader ==
    role # "Leader" =>
        /\ mStreamMgr = 0
        /\ mTimer = 0
        /\ \A k \in Keepers : ~LoopRunning(k)

\* C20: CleanupTopology keeps every persisted per-bucket topology record
\* referenced by a persisted GlobalTopology record, whatever the outcomes of
\* its deleteMeta calls, and deletes nothing when reading the GlobalTopology
\* fails.
C20_CleanupKeepsRecordsReferenced ==
    [][/\ \A b \in topRecs' : topGlobal'.present /\ b \in topGlobal'.keys
       /\ \A p \in Procs : (tpc[p] = "read" /\ tpc'[p] = "idle") =>
             topGlobal' = topGlobal /\ topRecs' = topRecs]_vars

\* The persist of keeper k fails.
PersistFails(k) == kpc[k] = "persist" /\ kpc'[k] = "marshal" /\ kout'[k] = "failed"

\* NewRequest returns to keeper k, whatever its answer.
SubmissionReturns(k) == kpc[k] = "unblocked" /\ kpc'[k] # "unblocked"

\* C21: a failed SetStabilityTimestamps and a failed submission are not fatal:
\* the keeper goes on with its loop and keeps its list; after a failed persist
\* persistTimestamp stays set, so the next report is persisted whether or not
\* the interval has elapsed; lastPersistTime advances only by a successful
\* persist.
C21_FailureNotFatalAndRetried ==
    [][\A k \in Keepers :
          /\ PersistFails(k) =>
                /\ kflag'[k] /\ klast'[k] = klast[k] /\ kts'[k] = kts[k]
                /\ repoTs' = repoTs
          /\ SubmissionReturns(k) =>
                /\ kpc'[k] = "select"
                /\ kflag'[k] = kflag[k] /\ klast'[k] = klast[k] /\ kts'[k] = kts[k]
          /\ (Receives(k) /\ kstat[k] = "failed") => kpc'[k] = "persist"
          /\ (kpc[k] \in {"select", "persist", "marshal", "blocked", "unblocked"}
                /\ klast'[k] # klast[k]) => (PersistSucceeds(k) \/ kpc'[k] = "done")
          /\ kpc'[k] = "panic" => kpc[k] \in {"spawned", "panic"}]_vars

\* A keeper's persist failed and its submission was answered with a failure;
\* the keeper took the next report and is about to persist again although the
\* interval has not elapsed since it started.
C21_Witness ==
    \E k \in Keepers :
        /\ kpc[k] = "persist" /\ kstat[k] = "failed"
        /\ nReports = 2
        /\ ~IntervalElapsed(now, klast[k], mInterval)
        /\ Len(kts[k]) >= 1

\* stopMasterService runs: the timer it finds is stopped and set to nil.
StopRuns == mTimer # 0 /\ mTimer' = 0

\* C22: stopMasterService discards and does not flush: the step of the stop
\* leaves the saved record as it is, and what a keeper had merged and not
\* saved when its term was stopped is lost: that keeper saves nothing later.
C22_StopDiscardsUnpersisted ==
    [][/\ StopRuns => repoTs' = repoTs
       /\ \A k \in Keepers : TermStopped(k) => ~PersistSucceeds(k)]_vars

\* C23: GetStabilityTimestampChannel is idempotent per stream: every channel a
\* caller was given for a stream is the one the map holds for that stream,
\* which is where a notified timestamp is put, and two streams never share a
\* channel.
C23_OneChannelPerStream ==
    /\ \A g \in Getters, s \in Streams : gheld[g][s] # 0 => gheld[g][s] = chMap[s]
    /\ \A s, t \in Streams : (s # t /\ chMap[s] # 0) => chMap[s] # chMap[t]

\* C24: Close and stopMasterService are idempotent over every sequence of
\* start, stop and Close calls: no stop channel and no StreamManager is closed
\* twice, each one that the manager no longer holds has been closed once,
\* Close tears down repo, coordinator, event manager and request handler once,
\* and isClosed stays true once it is.
C24_StopAndCloseIdempotent ==
    /\ \A c \in Keepers : chCloses[c] <= 1 /\ smCloses[c] <= 1
    /\ \A c \in 1..nStarts : c # mStopCh => chCloses[c] = 1
    /\ \A c \in smMade : c # mStreamMgr => smCloses[c] = 1
    /\ nTeardowns <= 1
    /\ nTeardowns > 0 => isClosed

\* C25: once Close has completed the leader-only services stay stopped:
\* streamMgr and timer are nil and no keeper loop is running, whatever is
\* called afterwards.
C25_ClosedStaysStopped ==
    isClosed =>
        /\ mStreamMgr = 0
        /\ mTimer = 0
        /\ \A k \in Keepers : ~LoopRunning(k)

\* Keeper k is inside its loop.
InLoop(k) == kpc[k] \in {"select", "persist", "marshal", "blocked", "unblocked"}

\* C26: at most one keeper loop is alive: every keeper inside its loop, other
\* than the keeper of the latest start, holds a stop channel that has been
\* closed.
C26_AtMostOneKeeperAlive ==
    \A k \in Keepers : (k # nStarts /\ InLoop(k)) => ksel[k] \in closedCh

\* startMasterService returns the error of NewStreamManager.
StartFails == nStarts' = nStarts + 1 /\ startRet' = "error"

\* C27: a start that fails in NewStreamManager returns the error and leaves
\* streamMgr nil, with the timer, the stop channel and the keeper it has just
\* created in place and not stopped; a timer is stopped and a stop channel is
\* closed only by a stopMasterService or a Close.
C27_FailedStartLeavesKeeper ==
    [][/\ StartFails =>
             /\ mStreamMgr' = 0
             /\ mTimer' = nStarts' /\ mStopCh' = nStarts'
             /\ kpc'[nStarts'] = "spawned"
             /\ nStarts' \notin stoppedTimers' /\ nStarts' \notin closedCh'
       /\ (stoppedTimers' # stoppedTimers \/ closedCh' # closedCh) =>
             /\ StopRuns
             /\ chCloses' # chCloses]_vars

\* The start has failed; its keeper is waiting in its select on the stop
\* channel of that start, which is open, and there is no StreamManager.
C27_Witness ==
    /\ startRet = "error"
    /\ nStarts = 1
    /\ mStreamMgr = 0 /\ mTimer = 1 /\ mStopCh = 1
    /\ kpc[1] = "select" /\ ksel[1] = 1
    /\ 1 \notin closedCh /\ 1 \notin stoppedTimers

\* C28: a keeper always finds the state it was started with: at its first
\* step it reads the timer of the start that spawned it, not nil, and inside
\* its loop it waits on the stop channel of that same start.
C28_KeeperFindsItsOwnState ==
    \A k \in Keepers :
        /\ kpc[k] # "panic"
        /\ InLoop(k) => ktimer[k] = k /\ ksel[k] = k

====
